---- MODULE Spec2Model ----
(***************************************************************************)
(* Model of the scanner in src/lexer/src/core.rs (struct Lexer).           *)
(*                                                                         *)
(* A character is a one-character string; a Vec<char> is a sequence of     *)
(* characters; a String is a TLA+ string.  The cursor `position` is the    *)
(* 0-based usize of the code, so input[position] of the code is            *)
(* self.input[self.position + 1] here.                                     *)
(***************************************************************************)
EXTENDS Integers, Sequences, FiniteSets, TLC

VARIABLES input, lexer, tokens, errors, token, result, pc

vars == <<input, lexer, tokens, errors, token, result, pc>>

(***************************************************************************)
(* Bounds of the checked input sets.                                       *)
(***************************************************************************)
MaxLen == 4
MaxLenCom == 6
MaxLenErr == 7
MaxLenOps == 4
MaxLenTok == 4
MaxWords == 2

(***************************************************************************)
(* Character classes, as the patterns of the code spell them.              *)
(***************************************************************************)
Digits == {"0", "1", "2", "3", "4", "5", "6", "7", "8", "9"}

Letters ==
    {"a", "b", "c", "d", "e", "f", "g", "h", "i", "j", "k", "l", "m",
     "n", "o", "p", "q", "r", "s", "t", "u", "v", "w", "x", "y", "z",
     "A", "B", "C", "D", "E", "F", "G", "H", "I", "J", "K", "L", "M",
     "N", "O", "P", "Q", "R", "S", "T", "U", "V", "W", "X", "Y", "Z"}

\* char::is_whitespace, restricted to the white-space characters a TLA+
\* string can spell.
is_whitespace(c) == c \in {" ", "\t", "\n", "\r", "\f"}

(***************************************************************************)
(* Token, ErrorType and Result values.                                     *)
(***************************************************************************)
Tok(kind) == [kind |-> kind, value |-> <<>>]

IDENTIFIER(id) == [kind |-> "IDENTIFIER", value |-> id]

NUMBER(num) == [kind |-> "NUMBER", value |-> num]

EOF == Tok("EOF")

Ok(v) == [tag |-> "Ok", val |-> v]

Err(e) == [tag |-> "Err", val |-> e]

NoValue == [tag |-> "None", val |-> <<>>]

Panicked == [tag |-> "Panic", val |-> <<>>]

(***************************************************************************)
(* Lexer::new and the cursor primitives.                                   *)
(***************************************************************************)
new(inp) == [input |-> inp, position |-> 0, current |-> "@"]

read_char(self) ==
    LET p == self.position + 1
    IN  [self EXCEPT !.position = p,
                     !.current = IF p >= Len(self.input)
                                 THEN "@"
                                 ELSE self.input[p + 1]]

peek_char(self) ==
    IF self.position + 1 >= Len(self.input)
    THEN "@"
    ELSE self.input[self.position + 2]

RECURSIVE skip_whitespace(_)
skip_whitespace(self) ==
    IF is_whitespace(self.current)
    THEN skip_whitespace(read_char(self))
    ELSE self

make_unrecognized_error(c) == [kind |-> "UnrecognizedToken", token |-> c]

(***************************************************************************)
(* Sub-scanners.  Each returns the Result it produces together with the    *)
(* lexer as the call leaves it: [token |-> Result, lexer |-> self'].       *)
(***************************************************************************)
Ret(t, self) == [token |-> t, lexer |-> self]

\* boolean_comparison without the read_char of the two-character arms.
boolean_comparison_NoAdvance(self) ==
    LET two == peek_char(self) = "="
    IN  IF self.current = "="
        THEN Ret(Ok(Tok(IF two THEN "EQUALEQUAL" ELSE "EQUAL")), self)
        ELSE IF self.current = "!"
        THEN Ret(Ok(Tok(IF two THEN "NOTEQUAL" ELSE "EXCLAMATIONPOINT")), self)
        ELSE IF self.current = "<"
        THEN Ret(Ok(Tok(IF two THEN "LESSTHANEQUAL" ELSE "LESSTHAN")), self)
        ELSE IF self.current = ">"
        THEN Ret(Ok(Tok(IF two THEN "GREATERTHANEQUAL" ELSE "GREATERTHAN")),
                 self)
        ELSE Ret(Err(make_unrecognized_error(self.current)), self)

boolean_comparison(self) ==
    IF self.current = "="
    THEN IF peek_char(self) = "="
         THEN Ret(Ok(Tok("EQUALEQUAL")), read_char(self))
         ELSE Ret(Ok(Tok("EQUAL")), self)
    ELSE IF self.current = "!"
    THEN IF peek_char(self) = "="
         THEN Ret(Ok(Tok("NOTEQUAL")), read_char(self))
         ELSE Ret(Ok(Tok("EXCLAMATIONPOINT")), self)
    ELSE IF self.current = "<"
    THEN IF peek_char(self) = "="
         THEN Ret(Ok(Tok("LESSTHANEQUAL")), read_char(self))
         ELSE Ret(Ok(Tok("LESSTHAN")), self)
    ELSE IF self.current = ">"
    THEN IF peek_char(self) = "="
         THEN Ret(Ok(Tok("GREATERTHANEQUAL")), read_char(self))
         ELSE Ret(Ok(Tok("GREATERTHAN")), self)
    ELSE Ret(Err(make_unrecognized_error(self.current)), self)

keyword_map ==
    << <<"struct", "STRUCT">>,     <<"enum", "ENUM">>,
       <<"if", "IF">>,             <<"else", "ELSE">>,
       <<"return", "RETURN">>,     <<"for", "FOR">>,
       <<"while", "WHILE">>,       <<"do", "DO">>,
       <<"break", "BREAK">>,       <<"continue", "CONTINUE">>,
       <<"switch", "SWITCH">>,     <<"case", "CASE">>,
       <<"int", "TINTEGER">>,      <<"bool", "TBOOLEAN">>,
       <<"double", "TDOUBLE">>,    <<"float", "TFLOAT">>,
       <<"char", "TCHAR">>,        <<"void", "TVOID">>,
       <<"signed", "TSIGNINT">>,   <<"unsigned", "TUSIGN">>,
       <<"long", "TLONG">>,        <<"const", "CONST">>,
       <<"true", "CTRUE">> >>

\* id.iter().collect(): the String made of the characters of id.
RECURSIVE collect(_)
collect(id) ==
    IF id = <<>> THEN "" ELSE Head(id) \o collect(Tail(id))

\* The loop that extends id while the next character is in [a-zA-Z0-9_].
RECURSIVE scan_identifier(_, _)
scan_identifier(self, id) ==
    IF peek_char(self) \in Letters \cup Digits \cup {"_"}
    THEN scan_identifier(read_char(self), Append(id, peek_char(self)))
    ELSE [id |-> id, lexer |-> self]

RECURSIVE match_keyword(_, _, _)

\* match_keyword with the loop stopping one entry short of the table's end.
match_keyword_OffByOne(identifier, id, i) ==
    IF i >= Len(keyword_map)
    THEN Ok(IDENTIFIER(id))
    ELSE IF identifier = keyword_map[i][1]
         THEN Ok(Tok(keyword_map[i][2]))
         ELSE match_keyword(identifier, id, i + 1)

\* The loop over keyword_map: the first entry equal to the identifier.
match_keyword(identifier, id, i) ==
    IF i > Len(keyword_map)
    THEN Ok(IDENTIFIER(id))
    ELSE IF identifier = keyword_map[i][1]
         THEN Ok(Tok(keyword_map[i][2]))
         ELSE match_keyword(identifier, id, i + 1)

\* scan_identifier stopping as soon as the characters collected so far
\* spell a keyword.
RECURSIVE scan_identifier_Eager(_, _)
scan_identifier_Eager(self, id) ==
    IF match_keyword(collect(id), id, 1) # Ok(IDENTIFIER(id))
    THEN [id |-> id, lexer |-> self]
    ELSE IF peek_char(self) \in Letters \cup Digits \cup {"_"}
    THEN scan_identifier_Eager(read_char(self), Append(id, peek_char(self)))
    ELSE [id |-> id, lexer |-> self]

\* handle_keywords_and_identifiers matching a keyword on a prefix of the run.
handle_keywords_and_identifiers_Prefix(self) ==
    LET s == scan_identifier_Eager(self, <<self.current>>)
    IN  Ret(match_keyword(collect(s.id), s.id, 1), s.lexer)

handle_keywords_and_identifiers(self) ==
    LET s == scan_identifier(self, <<self.current>>)
    IN  Ret(match_keyword(collect(s.id), s.id, 1), s.lexer)

\* The loop that extends num while the next character is a digit.
RECURSIVE scan_number(_, _)
scan_number(self, num) ==
    IF peek_char(self) \in Digits
    THEN scan_number(read_char(self), Append(num, peek_char(self)))
    ELSE [num |-> num, lexer |-> self]

\* numbers taking a single digit only.
numbers_OneDigit(self) ==
    IF self.current \notin Digits
    THEN Ret(Err(make_unrecognized_error(self.current)), self)
    ELSE Ret(Ok(NUMBER(<<self.current>>)), self)

numbers(self) ==
    IF self.current \notin Digits
    THEN Ret(Err(make_unrecognized_error(self.current)), self)
    ELSE LET s == scan_number(self, <<self.current>>)
         IN  Ret(Ok(NUMBER(s.num)), s.lexer)

handle_plus(self) ==
    IF peek_char(self) = "+"
    THEN Ret(Ok(Tok("PLUSPLUS")), read_char(self))
    ELSE Ret(Ok(Tok("PLUS")), self)

\* handle_minus without the read_char of the two-character arms.
handle_minus_NoAdvance(self) ==
    IF peek_char(self) = ">"
    THEN Ret(Ok(Tok("POINTER")), self)
    ELSE IF peek_char(self) = "-"
    THEN Ret(Ok(Tok("MINUSMINUS")), self)
    ELSE Ret(Ok(Tok("DASH")), self)

handle_minus(self) ==
    IF peek_char(self) = ">"
    THEN Ret(Ok(Tok("POINTER")), read_char(self))
    ELSE IF peek_char(self) = "-"
    THEN Ret(Ok(Tok("MINUSMINUS")), read_char(self))
    ELSE Ret(Ok(Tok("DASH")), self)

handle_ampersand(self) ==
    IF peek_char(self) = "&"
    THEN Ret(Ok(Tok("ANDAND")), read_char(self))
    ELSE Ret(Ok(Tok("AMPERSAND")), self)

handle_pipe(self) ==
    IF peek_char(self) = "|"
    THEN Ret(Ok(Tok("BARBAR")), read_char(self))
    ELSE Ret(Ok(Tok("BAR")), self)

single_char_tokens ==
    << <<"@", "EOF">>,       <<"*", "ASTERISK">>,  <<"/", "FSLASH">>,
       <<"%", "PERCENT">>,   <<"{", "LBRACKET">>,  <<"}", "RBRACKET">>,
       <<"(", "LPAREN">>,    <<")", "RPAREN">>,    <<"[", "LBRACE">>,
       <<"]", "RBRACE">>,    <<";", "SEMICOLON">>, <<":", "COLON">>,
       <<",", "COMMA">>,     <<".", "DOT">>,       <<"^", "CARET">>,
       <<"~", "TILDE">>,     <<"?", "CTRUE">> >>

\* handle_single_char_token without the arm of "?".
handle_single_char_token_NoQuestion(c) ==
    IF \E i \in 1..Len(single_char_tokens) :
          single_char_tokens[i][1] = c /\ c # "?"
    THEN LET i == CHOOSE j \in 1..Len(single_char_tokens) :
                      single_char_tokens[j][1] = c
         IN  Ok(Tok(single_char_tokens[i][2]))
    ELSE Err(make_unrecognized_error(c))

handle_single_char_token(c) ==
    IF \E i \in 1..Len(single_char_tokens) : single_char_tokens[i][1] = c
    THEN LET i == CHOOSE j \in 1..Len(single_char_tokens) :
                      single_char_tokens[j][1] = c
         IN  Ok(Tok(single_char_tokens[i][2]))
    ELSE Err(make_unrecognized_error(c))

(***************************************************************************)
(* Comment elision and dispatch.  handle_comments returns                  *)
(* [some |-> whether it returned Some(..), ret |-> the value inside Some,  *)
(*  lexer |-> the lexer as the call leaves it when it returned None].      *)
(***************************************************************************)
\* skip_line_comment reading one character past the end of the line.
RECURSIVE skip_line_comment_Past(_)
skip_line_comment_Past(self) ==
    IF self.current # "\n" /\ self.current # "@"
    THEN skip_line_comment_Past(read_char(self))
    ELSE read_char(self)

\* The while loop of the single-line comment.
RECURSIVE skip_line_comment(_)
skip_line_comment(self) ==
    IF self.current # "\n" /\ self.current # "@"
    THEN skip_line_comment(read_char(self))
    ELSE self

\* The loop of the block comment: [closed |-> left by break (TRUE) or by
\* return None (FALSE), lexer |-> the lexer at that point, level |-> the
\* value of the local level at that point].
RECURSIVE block_comment_loop(_, _)
block_comment_loop(self, level) ==
    IF self.current = "*" /\ peek_char(self) = "/"
    THEN IF level - 1 = 0
         THEN [closed |-> TRUE, lexer |-> read_char(read_char(self)),
               level |-> level - 1]
         ELSE block_comment_loop(read_char(read_char(self)), level - 1)
    ELSE IF self.current = "/" /\ peek_char(self) = "*"
    THEN block_comment_loop(read_char(read_char(self)), level + 1)
    ELSE IF self.current = "@"
    THEN [closed |-> FALSE, lexer |-> self, level |-> level]
    ELSE block_comment_loop(read_char(self), level)

RECURSIVE next_token(_)

\* handle_comments reporting the block comment left open at the end of input.
handle_comments_Report(self) ==
    IF self.current = "/" /\ peek_char(self) = "/"
    THEN [some |-> TRUE, ret |-> next_token(skip_line_comment(self)),
          lexer |-> self]
    ELSE IF self.current = "/" /\ peek_char(self) = "*"
    THEN LET b == block_comment_loop(read_char(self), 1)
         IN  IF b.closed
             THEN [some |-> TRUE, ret |-> next_token(b.lexer),
                   lexer |-> self]
             ELSE [some |-> TRUE,
                   ret |-> Ret(Err(make_unrecognized_error("/")), b.lexer),
                   lexer |-> b.lexer]
    ELSE [some |-> FALSE, ret |-> Ret(NoValue, self), lexer |-> self]

handle_comments(self) ==
    IF self.current = "/" /\ peek_char(self) = "/"
    THEN [some |-> TRUE, ret |-> next_token(skip_line_comment(self)),
          lexer |-> self]
    ELSE IF self.current = "/" /\ peek_char(self) = "*"
    THEN LET b == block_comment_loop(read_char(self), 1)
         IN  IF b.closed
             THEN [some |-> TRUE, ret |-> next_token(b.lexer),
                   lexer |-> self]
             ELSE [some |-> FALSE, ret |-> Ret(NoValue, b.lexer),
                   lexer |-> b.lexer]
    ELSE [some |-> FALSE, ret |-> Ret(NoValue, self), lexer |-> self]

SingleChars ==
    {"*", "/", "%", "{", "}", "(", ")", "[", "]", ";", ":", ",", ".",
     "^", "~", "?"}

\* The match of next_token on self.current, before the final read_char.
dispatch(self) ==
    IF self.current = "@"
    THEN IF self.position >= Len(self.input)
         THEN Ret(Ok(EOF), self)
         ELSE Ret(Err(make_unrecognized_error("@")), self)
    ELSE IF self.current \in Digits
    THEN numbers(self)
    ELSE IF self.current \in Letters \cup {"_"}
    THEN handle_keywords_and_identifiers(self)
    ELSE IF self.current = "+"
    THEN handle_plus(self)
    ELSE IF self.current = "-"
    THEN handle_minus(self)
    ELSE IF self.current \in SingleChars
    THEN Ret(handle_single_char_token(self.current), self)
    ELSE Ret(Err(make_unrecognized_error(self.current)), self)

next_token(self) ==
    LET c == handle_comments(skip_whitespace(self))
        s == c.lexer
    IN  IF c.some
        THEN c.ret
        ELSE IF s.current \in {"=", "!", "<", ">"}
        THEN LET r == boolean_comparison(s)
             IN  Ret(r.token, read_char(r.lexer))
        ELSE IF s.current = "&"
        THEN LET r == handle_ampersand(s)
             IN  IF r.token.tag = "Ok"
                 THEN IF r.token.val = Tok("AMPERSAND")
                      THEN Ret(r.token, read_char(r.lexer))
                      ELSE Ret(r.token, read_char(r.lexer))
                 ELSE r
        ELSE IF s.current = "|"
        THEN LET r == handle_pipe(s)
             IN  IF r.token.tag = "Ok"
                 THEN IF r.token.val = Tok("BAR")
                      THEN Ret(r.token, read_char(r.lexer))
                      ELSE Ret(r.token, read_char(r.lexer))
                 ELSE r
        ELSE LET r == dispatch(s)
             IN  Ret(r.token, read_char(r.lexer))

(***************************************************************************)
(* Lexer::lex as a function of its input: the loop run to its end.         *)
(***************************************************************************)
RECURSIVE lex_loop(_, _, _)
lex_loop(self, toks, errs) ==
    LET r == next_token(self)
    IN  IF r.token.tag = "Ok"
        THEN IF r.token.val = EOF
             THEN [tokens |-> Append(toks, r.token.val), errors |-> errs]
             ELSE lex_loop(r.lexer, Append(toks, r.token.val), errs)
        ELSE lex_loop(read_char(r.lexer), toks, Append(errs, r.token.val))

lex(inp) ==
    IF Len(inp) = 0
    THEN Panicked
    ELSE LET fin == lex_loop([new(inp) EXCEPT !.current = inp[1]],
                             <<>>, <<>>)
         IN  IF fin.errors = <<>> THEN Ok(fin.tokens) ELSE Err(fin.errors)

(***************************************************************************)
(* Lexer::lex as a state machine.  Init is the state after the three       *)
(* constructions at the head of lex; pc names the statement to run next.   *)
(***************************************************************************)
InitOn(inputs) ==
    /\ input \in inputs
    /\ lexer = new(input)
    /\ tokens = <<>>
    /\ errors = <<>>
    /\ token = NoValue
    /\ result = NoValue
    /\ pc = "first"

\* ReadFirst without the load of the first character.
ReadFirst_NoLoad ==
    /\ pc = "first"
    /\ IF Len(lexer.input) = 0
       THEN /\ pc' = "panic"
            /\ result' = Panicked
       ELSE /\ pc' = "loop"
            /\ UNCHANGED result
    /\ UNCHANGED <<input, lexer, tokens, errors, token>>

\* lexer.current = lexer.input[0]; the index panics on an empty input.
ReadFirst ==
    /\ pc = "first"
    /\ IF Len(lexer.input) = 0
       THEN /\ pc' = "panic"
            /\ result' = Panicked
            /\ UNCHANGED lexer
       ELSE /\ lexer' = [lexer EXCEPT !.current = lexer.input[1]]
            /\ pc' = "loop"
            /\ UNCHANGED result
    /\ UNCHANGED <<input, tokens, errors, token>>

\* let token = lexer.next_token();
CallNextToken ==
    /\ pc = "loop"
    /\ LET r == next_token(lexer)
       IN  /\ token' = r.token
           /\ lexer' = r.lexer
    /\ pc' = "match"
    /\ UNCHANGED <<input, tokens, errors, result>>

\* MatchToken going on with the loop after the end-of-input token.
MatchToken_NoBreak ==
    /\ pc = "match"
    /\ IF token.tag = "Ok"
       THEN /\ tokens' = Append(tokens, token.val)
            /\ pc' = "loop"
            /\ UNCHANGED <<errors, lexer>>
       ELSE /\ errors' = Append(errors, token.val)
            /\ lexer' = read_char(lexer)
            /\ pc' = "loop"
            /\ UNCHANGED tokens
    /\ UNCHANGED <<input, token, result>>

\* MatchToken advancing twice after an error.
MatchToken_AdvanceTwice ==
    /\ pc = "match"
    /\ IF token.tag = "Ok"
       THEN /\ tokens' = Append(tokens, token.val)
            /\ pc' = IF token.val = EOF THEN "exit" ELSE "loop"
            /\ UNCHANGED <<errors, lexer>>
       ELSE /\ errors' = Append(errors, token.val)
            /\ lexer' = read_char(read_char(lexer))
            /\ pc' = "loop"
            /\ UNCHANGED tokens
    /\ UNCHANGED <<input, token, result>>

\* match token { .. }
MatchToken ==
    /\ pc = "match"
    /\ IF token.tag = "Ok"
       THEN /\ tokens' = Append(tokens, token.val)
            /\ pc' = IF token.val = EOF THEN "exit" ELSE "loop"
            /\ UNCHANGED <<errors, lexer>>
       ELSE /\ errors' = Append(errors, token.val)
            /\ lexer' = read_char(lexer)
            /\ pc' = "loop"
            /\ UNCHANGED tokens
    /\ UNCHANGED <<input, token, result>>

\* Return without the errors.is_empty() test.
Return_AlwaysOk ==
    /\ pc = "exit"
    /\ result' = Ok(tokens)
    /\ pc' = "done"
    /\ UNCHANGED <<input, lexer, tokens, errors, token>>

\* if errors.is_empty() { return Ok(tokens); } Err(errors)
Return ==
    /\ pc = "exit"
    /\ result' = IF errors = <<>> THEN Ok(tokens) ELSE Err(errors)
    /\ pc' = "done"
    /\ UNCHANGED <<input, lexer, tokens, errors, token>>

Next == ReadFirst \/ CallNextToken \/ MatchToken \/ Return

\* All character sequences over alphabet of length at most n.
SeqsUpTo(alphabet, n) == UNION {[1..k -> alphabet] : k \in 0..n}

Alphabet == {"a", "1", " ", "\n", "$", "@", "/", "*", "="}

Init == InitOn(SeqsUpTo(Alphabet, MaxLen))

Spec == Init /\ [][Next]_vars

(***************************************************************************)
(* Vocabulary of the properties.                                           *)
(***************************************************************************)
Unrecognized(c) == make_unrecognized_error(c)

Chars(inp) == {inp[i] : i \in 1..Len(inp)}

\* The lexer with its cursor at 0-based position p of inp.
At(inp, p) ==
    [input |-> inp, position |-> p,
     current |-> IF p >= Len(inp) THEN "@" ELSE inp[p + 1]]

\* The characters the dispatch accepts as (the start of) a token.
TokenChars ==
    Letters \cup Digits \cup SingleChars
    \cup {"_", "=", "!", "<", ">", "+", "-", "&", "|"}

IsBadChar(c) == c \notin TokenChars /\ ~is_whitespace(c)

CountOf(seq, x) == Cardinality({i \in 1..Len(seq) : seq[i] = x})

\* C1: for every non-empty input lex returns Ok(tokens) or Err(errors); Ok
\* exactly when no unrecognized-token error was recorded; an Ok list holds
\* the end-of-input token exactly once, as its last element; an Err list is
\* non-empty, holds only unrecognized-token errors, and no tokens.
C1_OutcomeShape ==
    (pc \in {"done", "panic"} /\ input # <<>>) =>
        /\ pc = "done"
        /\ result.tag \in {"Ok", "Err"}
        /\ (result.tag = "Ok") <=> (errors = <<>>)
        /\ result.tag = "Ok" =>
              /\ result.val = tokens
              /\ Len(result.val) >= 1
              /\ result.val[Len(result.val)] = EOF
              /\ CountOf(result.val, EOF) = 1
        /\ result.tag = "Err" =>
              /\ result.val = errors
              /\ Len(result.val) >= 1
              /\ \A i \in 1..Len(result.val) :
                    /\ result.val[i].kind = "UnrecognizedToken"
                    /\ DOMAIN result.val[i] = {"kind", "token"}

\* C1 witness: a failing call that had produced tokens on the way.
C1_Witness ==
    /\ pc = "done"
    /\ result.tag = "Err"
    /\ Len(tokens) >= 2
    /\ Len(errors) >= 1

\* C2: lex on the empty input returns Ok with exactly one end-of-input
\* token and no errors; it does not fail on the read of the first character.
C2_EmptyInputOk ==
    (input = <<>> /\ pc # "first") =>
        /\ pc # "panic"
        /\ pc = "done" => result = Ok(<<EOF>>)

\* C3: when dispatch finds an unrecognized character at position p, lex
\* records one error carrying it and the next dispatch starts at p + 1, so
\* the character right before the next dispatch is the recorded one; an input
\* of k adjacent unrecognized characters fails with exactly those k errors.
C3_ErrorAdvancesByOne ==
    /\ [][(pc = "match" /\ token.tag = "Err") =>
             /\ errors' = Append(errors, token.val)
             /\ lexer'.position >= 1
             /\ lexer'.position <= Len(input)
             /\ input[lexer'.position] = token.val.token]_vars
    /\ [](( /\ pc = "done"
            /\ \A i \in 1..Len(input) : IsBadChar(input[i])) =>
             result = Err([i \in 1..Len(input) |-> Unrecognized(input[i])]))

(***************************************************************************)
(* The comments of an input as the language defines them, from the text    *)
(* alone: a line comment runs from // up to the next newline; a block      *)
(* comment runs from its opener through the closer that brings the nesting *)
(* counter, 1 after the two opener characters, back to 0.  Indices are     *)
(* 1-based indices of the input.                                           *)
(***************************************************************************)
PairAt(inp, i, a, b) == i + 1 <= Len(inp) /\ inp[i] = a /\ inp[i + 1] = b

\* Index of the last character of the matching closer, scanning from index
\* i with the counter at level; 0 when the input ends first.
RECURSIVE MatchingCloser(_, _, _)
MatchingCloser(inp, i, level) ==
    IF i > Len(inp)
    THEN 0
    ELSE IF PairAt(inp, i, "/", "*")
    THEN MatchingCloser(inp, i + 2, level + 1)
    ELSE IF PairAt(inp, i, "*", "/")
    THEN IF level = 1 THEN i + 1 ELSE MatchingCloser(inp, i + 2, level - 1)
    ELSE MatchingCloser(inp, i + 1, level)

\* Index of the first newline at or after i, Len(inp) + 1 when there is none.
RECURSIVE LineEnd(_, _)
LineEnd(inp, i) ==
    IF i > Len(inp) \/ inp[i] = "\n" THEN i ELSE LineEnd(inp, i + 1)

\* The indices of inp that lie inside a comment, scanning from index i.
RECURSIVE CommentIndices(_, _)
CommentIndices(inp, i) ==
    IF i > Len(inp)
    THEN {}
    ELSE IF PairAt(inp, i, "/", "/")
    THEN (i..(LineEnd(inp, i) - 1)) \cup CommentIndices(inp, LineEnd(inp, i))
    ELSE IF PairAt(inp, i, "/", "*")
    THEN LET e == MatchingCloser(inp, i + 2, 1)
         IN  IF e = 0
             THEN i..Len(inp)
             ELSE (i..e) \cup CommentIndices(inp, e + 1)
    ELSE CommentIndices(inp, i + 1)

\* The lexer states at which one call of next_token enters its dispatch
\* prelude: the state of the call, and the state after each comment it elides.
RECURSIVE Entries(_)
Entries(self) ==
    LET d == skip_whitespace(self)
    IN  {self} \cup
        IF d.current = "/" /\ peek_char(d) = "/"
        THEN Entries(skip_line_comment(d))
        ELSE IF d.current = "/" /\ peek_char(d) = "*"
        THEN LET b == block_comment_loop(read_char(d), 1)
             IN  IF b.closed THEN Entries(b.lexer) ELSE {}
        ELSE {}

\* The lexer state at which a call of next_token started at self reaches the
\* match on the current character: after white space and elided comments.
RECURSIVE DispatchPoint(_)
DispatchPoint(self) ==
    LET d == skip_whitespace(self)
    IN  IF d.current = "/" /\ peek_char(d) = "/"
        THEN DispatchPoint(skip_line_comment(d))
        ELSE IF d.current = "/" /\ peek_char(d) = "*"
        THEN LET b == block_comment_loop(read_char(d), 1)
             IN  IF b.closed THEN DispatchPoint(b.lexer) ELSE b.lexer
        ELSE d

\* C4: an input with exactly two unrecognized characters c1 # c2, both
\* outside comments and separated by at least one valid token, fails with
\* the error list [unrecognized(c1), unrecognized(c2)].
C4_TwoErrorsInOrder ==
    pc \in {"done", "panic"} =>
        LET bad == {i \in 1..Len(input) : IsBadChar(input[i])}
            com == CommentIndices(input, 1)
        IN  \A i, j \in bad :
               ( /\ bad = {i, j}
                 /\ i < j
                 /\ input[i] # input[j]
                 /\ bad \cap com = {}
                 /\ \E k \in (i + 1)..(j - 1) :
                       k \notin com /\ input[k] \in TokenChars ) =>
                   result = Err(<<Unrecognized(input[i]),
                                  Unrecognized(input[j])>>)

AlphabetErr == {"$", "#", "/", "*", "\n"}

InitErr == InitOn(SeqsUpTo(AlphabetErr, MaxLenErr))

SpecErr == InitErr /\ [][Next]_vars

\* The two-character operators and the single-character tokens of their
\* first characters, as <<first, second, token>> and <<first, token>>.
TwoCharOperators ==
    { <<"=", "=", "EQUALEQUAL">>, <<"!", "=", "NOTEQUAL">>,
      <<"<", "=", "LESSTHANEQUAL">>, <<">", "=", "GREATERTHANEQUAL">>,
      <<"+", "+", "PLUSPLUS">>, <<"-", "-", "MINUSMINUS">>,
      <<"-", ">", "POINTER">>, <<"&", "&", "ANDAND">>,
      <<"|", "|", "BARBAR">> }

OneCharOperators ==
    { <<"=", "EQUAL">>, <<"!", "EXCLAMATIONPOINT">>, <<"<", "LESSTHAN">>,
      <<">", "GREATERTHAN">>, <<"+", "PLUS">>, <<"-", "DASH">>,
      <<"&", "AMPERSAND">>, <<"|", "BAR">> }

\* The character of inp after 0-based position p completes the operator op.
Completes(inp, p, op) ==
    /\ p + 2 <= Len(inp)
    /\ inp[p + 1] = op[1]
    /\ inp[p + 2] = op[2]

\* C5: when dispatch is at the first character of a two-character operator
\* and the next character completes it, exactly one token, the two-character
\* operator, is emitted and the next dispatch starts right after the second
\* character; otherwise the single-character token is emitted and the next
\* dispatch starts right after that character.
C5_GreedyOperators ==
    [][(pc = "loop") =>
          LET d == DispatchPoint(lexer)
              p == d.position
          IN  \A one \in OneCharOperators :
                 (p < Len(input) /\ input[p + 1] = one[1]) =>
                    /\ pc' = "match"
                    /\ tokens' = tokens
                    /\ errors' = errors
                    /\ \A op \in TwoCharOperators :
                          Completes(input, p, op) =>
                             /\ token' = Ok(Tok(op[3]))
                             /\ lexer'.position = p + 2
                    /\ (~\E op \in TwoCharOperators : Completes(input, p, op)) =>
                             /\ token' = Ok(Tok(one[2]))
                             /\ lexer'.position = p + 1]_vars

\* C5 witness: "&&" was just lexed as one token after a single "&" had
\* been lexed as one.
C5_Witness ==
    /\ pc = "match"
    /\ token = Ok(Tok("ANDAND"))
    /\ tokens = <<Tok("AMPERSAND")>>
    /\ lexer.position = Len(input)

AlphabetOps == {"=", "!", "<", ">", "+", "-", "&", "|", "a", " "}

InitOps == InitOn(SeqsUpTo(AlphabetOps, MaxLenOps))

SpecOps == InitOps /\ [][Next]_vars

\* The reserved words, spelled as character sequences, each with its token.
ReservedWords ==
    { <<<<"s", "t", "r", "u", "c", "t">>, "STRUCT">>,
      <<<<"e", "n", "u", "m">>, "ENUM">>,
      <<<<"i", "f">>, "IF">>,
      <<<<"e", "l", "s", "e">>, "ELSE">>,
      <<<<"r", "e", "t", "u", "r", "n">>, "RETURN">>,
      <<<<"f", "o", "r">>, "FOR">>,
      <<<<"w", "h", "i", "l", "e">>, "WHILE">>,
      <<<<"d", "o">>, "DO">>,
      <<<<"b", "r", "e", "a", "k">>, "BREAK">>,
      <<<<"c", "o", "n", "t", "i", "n", "u", "e">>, "CONTINUE">>,
      <<<<"s", "w", "i", "t", "c", "h">>, "SWITCH">>,
      <<<<"c", "a", "s", "e">>, "CASE">>,
      <<<<"i", "n", "t">>, "TINTEGER">>,
      <<<<"b", "o", "o", "l">>, "TBOOLEAN">>,
      <<<<"d", "o", "u", "b", "l", "e">>, "TDOUBLE">>,
      <<<<"f", "l", "o", "a", "t">>, "TFLOAT">>,
      <<<<"c", "h", "a", "r">>, "TCHAR">>,
      <<<<"v", "o", "i", "d">>, "TVOID">>,
      <<<<"s", "i", "g", "n", "e", "d">>, "TSIGNINT">>,
      <<<<"u", "n", "s", "i", "g", "n", "e", "d">>, "TUSIGN">>,
      <<<<"l", "o", "n", "g">>, "TLONG">>,
      <<<<"c", "o", "n", "s", "t">>, "CONST">>,
      <<<<"t", "r", "u", "e">>, "CTRUE">> }

Spellings == {r[1] : r \in ReservedWords}

KeywordToken(w) == Tok((CHOOSE r \in ReservedWords : r[1] = w)[2])

IdentChars == Letters \cup Digits \cup {"_"}

\* The maximal run of characters of [a-zA-Z0-9_] of inp that starts at index i.
RECURSIVE MaximalRun(_, _)
MaximalRun(inp, i) ==
    IF i > Len(inp) \/ inp[i] \notin IdentChars
    THEN <<>>
    ELSE <<inp[i]>> \o MaximalRun(inp, i + 1)

\* C6: when dispatch is at an ASCII letter or underscore, the scanner
\* consumes the maximal run of [a-zA-Z0-9_] and emits exactly one token for
\* it: the keyword token if the whole run is a reserved word, otherwise an
\* identifier carrying the run unchanged; the next dispatch starts right
\* after the run.
C6_IdentifierBoundary ==
    [][(pc = "loop") =>
          LET d == DispatchPoint(lexer)
              p == d.position
              run == MaximalRun(input, p + 1)
          IN  (p < Len(input) /\ input[p + 1] \in Letters \cup {"_"}) =>
                 /\ pc' = "match"
                 /\ tokens' = tokens
                 /\ errors' = errors
                 /\ lexer'.position = p + Len(run)
                 /\ token' = IF run \in Spellings
                             THEN Ok(KeywordToken(run))
                             ELSE Ok(IDENTIFIER(run))]_vars

\* C6 witness: "intx" was just lexed as one identifier, after "int" alone had
\* been lexed as the keyword.
C6_Witness ==
    /\ pc = "match"
    /\ token = Ok(IDENTIFIER(<<"i", "n", "t", "x">>))
    /\ tokens = <<Tok("TINTEGER")>>

\* The words of inp between its space characters (empty words included).
RECURSIVE SplitOnSpace(_, _, _)
SplitOnSpace(inp, i, word) ==
    IF i > Len(inp)
    THEN <<word>>
    ELSE IF inp[i] = " "
    THEN <<word>> \o SplitOnSpace(inp, i + 1, <<>>)
    ELSE SplitOnSpace(inp, i + 1, Append(word, inp[i]))

\* C9: an input made of reserved-word spellings separated by single spaces
\* lexes successfully to exactly the corresponding keyword tokens, in order,
\* followed by end-of-input; distinct spellings give distinct tokens.
C9_KeywordSentences ==
    pc \in {"done", "panic"} =>
        LET w == SplitOnSpace(input, 1, <<>>)
        IN  (\A i \in 1..Len(w) : w[i] \in Spellings) =>
               /\ result =
                    Ok([i \in 1..Len(w) |-> KeywordToken(w[i])] \o <<EOF>>)
               /\ \A i, j \in 1..Len(w) :
                     w[i] # w[j] => result.val[i] # result.val[j]

\* C9 witness: the sentence "do double" has been lexed to its two keywords.
C9_Witness ==
    /\ pc = "done"
    /\ input = <<"d", "o", " ", "d", "o", "u", "b", "l", "e">>
    /\ result = Ok(<<Tok("DO"), Tok("TDOUBLE"), EOF>>)

\* Words that are not reserved: near misses of reserved words, and other
\* lexemes.
OtherWords ==
    { <<"i", "n", "t", "x">>,
      <<"I", "n", "t">>,
      <<"x">>,
      <<"d", "o", "1">>,
      <<"_">>,
      <<";">> }

Words == Spellings \cup OtherWords

Separators == {<<>>, <<" ">>}

\* w[1] sp[1] w[2] sp[2] .. w[n]
RECURSIVE Join(_, _, _)
Join(w, sp, i) ==
    IF i = Len(w) THEN w[i] ELSE w[i] \o sp[i] \o Join(w, sp, i + 1)

\* All inputs made of at most m words, a separator between every two.
WordInputs(m) ==
    UNION { {Join(w, sp, 1) : w \in [1..n -> Words],
                              sp \in [1..(n - 1) -> Separators]} :
            n \in 1..m }

InitWords == InitOn(WordInputs(MaxWords))

SpecWords == InitWords /\ [][Next]_vars

\* C7: when dispatch is at "/" immediately followed by "*", everything from
\* that opener through its matching closer is discarded without a token or
\* an error, and dispatch resumes right after the closer; so, for inputs
\* without the character "@", replacing the comment by one space does not
\* change the result of lex.
C7_BlockCommentTransparent ==
    (pc = "loop" /\ "@" \notin Chars(input)) =>
        \A s \in Entries(lexer) :
           LET p == skip_whitespace(s).position
               e == MatchingCloser(input, p + 3, 1)
           IN  (PairAt(input, p + 1, "/", "*") /\ e # 0) =>
                  /\ next_token(s) = next_token(At(input, e))
                  /\ lex(input) =
                        lex(SubSeq(input, 1, p) \o <<" ">>
                            \o SubSeq(input, e + 1, Len(input)))

\* The block comments a call of next_token started at self leaves by
\* return None at the true end of the input (at most one).
OpenBlocks(self) ==
    { b \in { block_comment_loop(read_char(skip_whitespace(s)), 1) :
              s \in { t \in Entries(self) :
                      /\ skip_whitespace(t).current = "/"
                      /\ peek_char(skip_whitespace(t)) = "*" } } :
      ~b.closed /\ b.lexer.position >= Len(b.lexer.input) }

\* n closers.
RECURSIVE Closers(_)
Closers(n) == IF n = 0 THEN <<>> ELSE <<"*", "/">> \o Closers(n - 1)

AlphabetCom == {"/", "*", "a", "\n", "$"}

InitCom == InitOn(SeqsUpTo(AlphabetCom, MaxLenCom))

SpecCom == InitCom /\ [][Next]_vars

\* inp with every "@" that lies inside a comment replaced by the letter a.
Masked(inp) ==
    [i \in 1..Len(inp) |->
        IF inp[i] = "@" /\ i \in CommentIndices(inp, 1) THEN "a" ELSE inp[i]]

\* No block-comment opener of inp is directly followed by "/".
NoSlashAfterOpener(inp) ==
    \A i \in 1..Len(inp) :
       PairAt(inp, i, "/", "*") => ~PairAt(inp, i + 1, "*", "/")

\* C8: a "@" that is part of the input is never treated as end of input: at
\* dispatch it is reported as an unrecognized "@" and scanning continues
\* after it; inside a comment it is skipped like any other comment
\* character, so the result is that of the input with another character in
\* its place.  (Stated for inputs whose openers are not directly followed
\* by "/", which C7 covers.)
C8_SentinelByPosition ==
    /\ pc = "loop" =>
          LET d == DispatchPoint(lexer)
          IN  (d.position < Len(input) /\ input[d.position + 1] = "@") =>
                 next_token(lexer) =
                    Ret(Err(Unrecognized("@")), At(input, d.position + 1))
    /\ (pc = "done" /\ NoSlashAfterOpener(input)) =>
          result = lex(Masked(input))

(***************************************************************************)
(* Lexemes: the spellings of the payload-free tokens, and the inputs of    *)
(* the token-level properties.                                             *)
(***************************************************************************)
PunctuationSpellings ==
    { <<<<"*">>, "ASTERISK">>,  <<<<"/">>, "FSLASH">>,
      <<<<"%">>, "PERCENT">>,   <<<<"{">>, "LBRACKET">>,
      <<<<"}">>, "RBRACKET">>,  <<<<"(">>, "LPAREN">>,
      <<<<")">>, "RPAREN">>,    <<<<"[">>, "LBRACE">>,
      <<<<"]">>, "RBRACE">>,    <<<<";">>, "SEMICOLON">>,
      <<<<":">>, "COLON">>,     <<<<",">>, "COMMA">>,
      <<<<".">>, "DOT">>,       <<<<"^">>, "CARET">>,
      <<<<"~">>, "TILDE">>,     <<<<"?">>, "CTRUE">> }

TokenSpellings ==
    ReservedWords \cup PunctuationSpellings
    \cup {<<<<op[1], op[2]>>, op[3]>> : op \in TwoCharOperators}
    \cup {<<<<op[1]>>, op[2]>> : op \in OneCharOperators}

\* The character sequences a token can be the token of.
Lexemes(tok) ==
    IF tok.kind \in {"IDENTIFIER", "NUMBER"}
    THEN {tok.value}
    ELSE {sp[1] : sp \in {x \in TokenSpellings : x[2] = tok.kind}}

IsPrefixAt(l, s, j) ==
    /\ j + Len(l) - 1 <= Len(s)
    /\ \A k \in 1..Len(l) : s[j + k - 1] = l[k]

\* The tokens toks[i..] have lexemes whose concatenation is s[j..].
RECURSIVE Spells(_, _, _, _)
Spells(toks, i, s, j) ==
    IF i > Len(toks)
    THEN j = Len(s) + 1
    ELSE \E l \in Lexemes(toks[i]) :
            IsPrefixAt(l, s, j) /\ Spells(toks, i + 1, s, j + Len(l))

NotWhitespace(c) == ~is_whitespace(c)

\* C11: for every comment-free input that lexes successfully, the lexemes of
\* the returned tokens (end-of-input excluded), concatenated in order, are
\* the input with its white space removed: no character is scanned twice or
\* skipped.
C11_LexemesCoverInput ==
    (pc = "done" /\ result.tag = "Ok" /\ CommentIndices(input, 1) = {}) =>
        Spells(SubSeq(result.val, 1, Len(result.val) - 1), 1,
               SelectSeq(input, NotWhitespace), 1)

\* C11 witness: a successful call on a comment-free input with white space
\* that returned a number and a two-character operator.
C11_Witness ==
    /\ pc = "done"
    /\ CommentIndices(input, 1) = {}
    /\ \E i \in 1..Len(input) : is_whitespace(input[i])
    /\ result = Ok(<<NUMBER(<<"1">>), Tok("POINTER"), EOF>>)

AlphabetTok == {"1", "2", "a", "b", ".", " ", "=", "-", ">", "?", "$"}

InitTok == InitOn(SeqsUpTo(AlphabetTok, MaxLenTok))

SpecTok == InitTok /\ [][Next]_vars

\* The maximal run of ASCII digits of inp that starts at index i.
RECURSIVE DigitRun(_, _)
DigitRun(inp, i) ==
    IF i > Len(inp) \/ inp[i] \notin Digits
    THEN <<>>
    ELSE <<inp[i]>> \o DigitRun(inp, i + 1)

\* C13: when dispatch is at an ASCII digit, the scanner consumes the maximal
\* run of ASCII digits and emits exactly one number token carrying exactly
\* those digits; the next dispatch starts at the first non-digit character.
C13_NumericLiterals ==
    [][(pc = "loop") =>
          LET d == DispatchPoint(lexer)
              p == d.position
              run == DigitRun(input, p + 1)
          IN  (p < Len(input) /\ input[p + 1] \in Digits) =>
                 /\ pc' = "match"
                 /\ tokens' = tokens
                 /\ errors' = errors
                 /\ token' = Ok(NUMBER(run))
                 /\ lexer'.position = p + Len(run)
                 /\ lexer' = At(input, p + Len(run))]_vars

\* C13 witness: "12ab" has been lexed to number("12") and identifier("ab").
C13_Witness ==
    /\ pc = "done"
    /\ input = <<"1", "2", "a", "b">>
    /\ result = Ok(<<NUMBER(<<"1", "2">>), IDENTIFIER(<<"a", "b">>), EOF>>)

\* C17: the character "?" at dispatch is a valid one-character lexeme: it
\* produces the token the keyword true produces, so "?" and "true" lex to
\* the same token sequence.
C17_QuestionMarkIsTrue ==
    /\ [][(pc = "loop") =>
             LET p == DispatchPoint(lexer).position
                 t == lex(<<"t", "r", "u", "e">>)
             IN  (p < Len(input) /\ input[p + 1] = "?") =>
                    /\ t.tag = "Ok"
                    /\ Len(t.val) = 2
                    /\ token' = Ok(t.val[1])
                    /\ lexer'.position = p + 1
                    /\ errors' = errors]_vars
    /\ []((pc = "done" /\ input = <<"?">>) =>
             /\ result.tag = "Ok"
             /\ result = lex(<<"t", "r", "u", "e">>))

\* C17 witness: a "?" after a number has just been lexed as the token of
\* true.
C17_Witness ==
    /\ pc = "match"
    /\ token = Ok(Tok("CTRUE"))
    /\ tokens = <<NUMBER(<<"1">>)>>
    /\ input[lexer.position] = "?"

\* C12: when dispatch is at "/" immediately followed by "/", the scanner
\* advances to, but not past, the next newline or the end of input, emits no
\* token and no error for the skipped characters (in inputs without "@"), and
\* produces the next real token from the text after them.
C12_LineCommentElided ==
    [][(pc = "loop" /\ "@" \notin Chars(input)) =>
          \A s \in Entries(lexer) :
             LET d == skip_whitespace(s)
                 p == d.position
                 e == LineEnd(input, p + 1)
                 rest == next_token(At(input, e - 1))
             IN  PairAt(input, p + 1, "/", "/") =>
                    /\ skip_line_comment(d) = At(input, e - 1)
                    /\ e <= Len(input) => input[e] = "\n"
                    /\ token' = rest.token
                    /\ lexer' = rest.lexer
                    /\ tokens' = tokens
                    /\ errors' = errors]_vars

\* C12 witness: after a token, a line comment holding an unrecognized
\* character has been elided and the token after its newline returned.
C12_Witness ==
    /\ pc = "match"
    /\ input = <<"a", "/", "/", "$", "\n", "*">>
    /\ tokens = <<IDENTIFIER(<<"a">>)>>
    /\ errors = <<>>
    /\ token = Ok(Tok("ASTERISK"))

\* C14: in every state reached during a lex call, the state in which lex
\* returns included, the cursor position is within [0, length of the input].
C14_CursorWithinInput ==
    pc # "panic" =>
        /\ lexer.position >= 0
        /\ lexer.position <= Len(input)

\* C14 as amended: the cursor position is within [0, length + 2]; it is at
\* most the length at every call of next_token that returns a token other
\* than end-of-input, and it never decreases.
C14_CursorWithinInputPlusTwo ==
    /\ [](pc # "panic" =>
             /\ lexer.position >= 0
             /\ lexer.position <= Len(input) + 2)
    /\ [][/\ lexer'.position >= lexer.position
          /\ (pc = "loop" /\ token' # Ok(EOF)) =>
                DispatchPoint(lexer).position < Len(input)]_vars

\* C14 witness: lex has returned with the cursor two past the end of the
\* input, after an error on the last character.
C14_Witness ==
    /\ pc = "done"
    /\ lexer.position = Len(input) + 2
    /\ result.tag = "Err"

\* C15: for a non-empty input, at every entry to dispatch and after every
\* advance, the cached current character is input[position] when position
\* is below the length and the sentinel "@" otherwise.
C15_CachedCharacter ==
    (pc \in {"loop", "match", "exit", "done"}) =>
        /\ lexer = At(input, lexer.position)
        /\ pc = "loop" =>
              /\ \A q \in 0..(Len(input) + 1) :
                    read_char(At(input, q)) = At(input, q + 1)
              /\ \A s \in Entries(lexer) : s = At(input, s.position)
              /\ next_token(lexer).lexer =
                    At(input, next_token(lexer).lexer.position)

\* C15 witness: the cursor is inside the input on a character other than the
\* sentinel, after an advance, and later calls have reached the end.
C15_Witness ==
    /\ pc = "loop"
    /\ lexer.position = 2
    /\ lexer.position < Len(input)
    /\ lexer.current = "a"
    /\ tokens # <<>>

\* Inputs for the termination check: every sequence up to MaxLenLive of a
\* letter, whitespace, an unrecognized character, the comment characters and
\* the sentinel value, and a few longer ones with nested comments.
MaxLenLive == 3

AlphabetLive == {"a", " ", "$", "/", "*", "@"}

\* Inputs that leave a nested block comment open at the end of the input.
NestedComments ==
    { <<"/", "*", "a", "/", "*">>,
      <<"/", "*", "$", "/", "*">>,
      <<"a", "/", "*", " ", "/", "*">> }

InitLive == InitOn(SeqsUpTo(AlphabetLive, MaxLenLive) \cup NestedComments)

\* lex is sequential code running on one thread: whenever a step of the call
\* is possible the call takes it.
FairSpec == InitLive /\ [][Next]_vars /\ WF_vars(Next)

\* C16: for every non-empty input lex eventually returns; every call of
\* next_token that does not return end-of-input strictly increases the
\* cursor position, the position never decreases, and the loop stops as soon
\* as the end-of-input token has been emitted.
C16_Termination ==
    /\ (input # <<>>) ~> (pc = "done")
    /\ [][/\ lexer'.position >= lexer.position
          /\ (pc = "loop" /\ token' # Ok(EOF)) =>
                lexer'.position > lexer.position
          /\ (pc = "match" /\ token = Ok(EOF)) =>
                (pc' = "exit" /\ tokens' = Append(tokens, EOF))
          /\ pc = "exit" => pc' = "done"]_vars

\* C16 witness: lex has returned after an error and two more iterations of
\* the loop.
C16_Witness ==
    /\ pc = "done"
    /\ Len(input) = MaxLenLive
    /\ errors # <<>>
    /\ Len(tokens) >= 2

====
